---- MODULE Spec2Model ----
(***************************************************************************)
(* Model of the two FBPIC driver scripts of signac-driven-fbpic:           *)
(*   src/signac/src/lwfa_script.py              (script = "lwfa")          *)
(*   src/calder/experiment_2012/calder_experiment.py  (script = "calder")  *)
(* The scripts are straight-line programs; pc is the position in the       *)
(* script, and every call into the FBPIC engine is appended to `calls`.    *)
(* Lengths are integers (micrometres for the density profiles, abstract    *)
(* length units for the box), times and densities are exact rationals      *)
(* <<numerator, denominator>> with a positive denominator, complex field   *)
(* values are pairs <<re, im>>.                                            *)
(***************************************************************************)
EXTENDS Integers, Sequences, FiniteSets

VARIABLES
    script,             \* which of the two scripts runs
    use_restart,        \* parameter use_restart
    track_electrons,    \* parameter track_electrons
    save_checkpoints,   \* parameter save_checkpoints
    diag_period,        \* parameter diag_period
    checkpoint_period,  \* parameter checkpoint_period
    target,             \* lwfa: the propagation distance literal of L_interact
    zmin, zmax, Nz,     \* lwfa: the simulation box along z
    v_window,           \* lwfa: speed of the moving window
    N_step,             \* number of iterations handed to sim.step
    Nm,                 \* lwfa: number of azimuthal modes
    pc,                 \* position in the script
    calls,              \* engine calls issued so far, in order
    loads,              \* number of plasma species loaded from the density profile
    iteration,          \* sim.iteration
    startIter,          \* sim.iteration when sim.step was called
    stepsDone,          \* PIC iterations performed by sim.step
    window,             \* number of times the moving window was configured
    diags,              \* sim.diags
    checkpoints,        \* sim.checkpoints
    fieldFired,         \* iterations at which the field diagnostic wrote
    particleFired,      \* iterations at which the particle diagnostic wrote
    ckptWritten,        \* iterations at which a checkpoint was written
    restartRaised,      \* restart_from_checkpoint raised
    fld,                \* sim.fld.interp[m].Er, per mode, indexed [iz][ir]
    gathered_grids,     \* gathered_grids[m].Er, per mode, indexed [iz][ir]
    Er,                 \* the name Er: <<>> unbound, or the array it views
    m,                  \* loop variable of the mode-combination loop
    z, r,               \* dens_func arguments (one element of the arrays)
    n                   \* dens_func result

vars == <<script, use_restart, track_electrons, save_checkpoints, diag_period,
          checkpoint_period, target, zmin, zmax, Nz, v_window, N_step, Nm, pc,
          calls, loads, iteration, startIter, stepsDone, window, diags,
          checkpoints, fieldFired, particleFired, ckptWritten, restartRaised,
          fld, gathered_grids, Er, m, z, r, n>>

paramVars == <<script, use_restart, track_electrons, save_checkpoints,
               diag_period, checkpoint_period, target, zmin, zmax, Nz,
               v_window, Nm>>
engineVars == <<loads, iteration, startIter, stepsDone, window, diags,
                checkpoints, fieldFired, particleFired, ckptWritten,
                restartRaised>>
fieldVars == <<fld, gathered_grids, Er, m>>
densVars == <<z, r, n>>

(***************************************************************************)
(* Bounds of the model                                                     *)
(***************************************************************************)
MaxPeriod == 3      \* diag_period and checkpoint_period range over 1..MaxPeriod
MaxSteps == 4       \* N_step of a modelled run ranges over 0..MaxSteps
MaxCkptIter == 3    \* iteration stored in the latest checkpoint: 0..MaxCkptIter
MaxTarget == 6      \* step-count derivation: target distance 0..MaxTarget
MaxZ == 2           \* step-count derivation: zmin in -MaxZ..0, zmax in 1..MaxZ
MaxNz == 3          \* step-count derivation: Nz in 1..MaxNz
MaxModes == 3       \* field slice: Nm in 1..MaxModes
MaxRe == 2          \* field slice: real parts in 0..MaxRe
GridNz == 2         \* field slice: gathered grid points along z
GridNr == 1         \* field slice: gathered grid points along r
ZMargin == 3        \* density: z from ZMargin below the profile to ZMargin above
MaxR == 1           \* density: r in 0..MaxR

\* scipy.constants.c in the model's length and time units
CLight == 2

(***************************************************************************)
(* Exact rationals                                                         *)
(***************************************************************************)
Rat(num, den) == <<num, den>>

\* int(x) of Python on x = num/den (den > 0): truncation towards zero
PyInt(num, den) ==
    IF num >= 0 THEN num \div den ELSE -((-num) \div den)

(***************************************************************************)
(* Parameter resolution (lwfa_script.py lines 58, 103, 106, 155)           *)
(***************************************************************************)
\* dt = (zmax-zmin)/Nz/c
dt(zlo, zhi, nz) == Rat(zhi - zlo, nz * CLight)

\* L_interact = 900.e-6 - (zmax - zmin); `tgt` is the distance literal
L_interact(tgt, zlo, zhi) == tgt - (zhi - zlo)

\* T_interact without the box length added back
T_interactBoxDropped(tgt, zlo, zhi, v) == Rat(L_interact(tgt, zlo, zhi), v)

\* T_interact = ( L_interact + (zmax-zmin) ) / v_window
T_interact(tgt, zlo, zhi, v) == Rat(L_interact(tgt, zlo, zhi) + (zhi - zlo), v)

\* N_step = int(T_interact/sim.dt)
StepCount(tgt, zlo, zhi, nz, v) ==
    LET T == T_interact(tgt, zlo, zhi, v)
        d == dt(zlo, zhi, nz)
    IN  PyInt(T[1] * d[2], T[2] * d[1])

(***************************************************************************)
(* Density profiles                                                        *)
(***************************************************************************)
\* calder_experiment.py breakpoints, in micrometres
z1 == 0
z2 == 65
z4 == 1565
\* lwfa_script.py ramp, in micrometres
ramp_start == 0
ramp_length == 375

\* np.where(cond, a, b) on one element
Where(cond, a, b) == IF cond THEN a ELSE b

\* dens_func of calder_experiment.py without the suppression after z4
dens_func_calderTailKept(zz, rr) ==
    LET n0 == Rat(1, 1)
        n1 == Where(zz < z2, Rat(zz - z1, z2 - z1), n0)
        n2 == Where(zz < z1, Rat(0, 1), n1)
    IN  n2

\* dens_func of calder_experiment.py, on one element of z
dens_func_calder(zz, rr) ==
    LET n0 == Rat(1, 1)
        n1 == Where(zz < z2, Rat(zz - z1, z2 - z1), n0)
        n2 == Where(zz < z1, Rat(0, 1), n1)
        n3 == Where(zz > z4, Rat(0, 1), n2)
    IN  n3

\* dens_func of lwfa_script.py, on one element of z
dens_func_lwfa(zz, rr) ==
    LET n0 == Rat(1, 1)
        n1 == Where(zz < ramp_start + ramp_length,
                    Rat(zz - ramp_start, ramp_length), n0)
        n2 == Where(zz < ramp_start, Rat(0, 1), n1)
    IN  n2

dens_func(zz, rr) ==
    IF script = "calder" THEN dens_func_calder(zz, rr) ELSE dens_func_lwfa(zz, rr)

(***************************************************************************)
(* Field arrays                                                            *)
(***************************************************************************)
\* a grid whose real parts alternate between a and b, imaginary part im
MakeGrid(a, b, im) ==
    [iz \in 1..GridNz |-> [ir \in 1..GridNr |->
        <<IF (iz + ir) % 2 = 0 THEN a ELSE b, im>>]]

\* array.T
Transpose(a) == [ir \in 1..GridNr |-> [iz \in 1..GridNz |-> a[iz][ir]]]

\* array.real, element by element
Real(a) == [i \in DOMAIN a |-> [j \in DOMAIN a[i] |-> a[i][j][1]]]

\* The value seen through the name Er: Er = gathered_grids[k].Er.T.real is a
\* view (numpy's .T and .real of a complex array share the array's buffer).
ErValue == Real(Transpose(gathered_grids[Er[1]]))

\* view += mode.T.real, the factor 2 forgotten
AddThroughViewUnweighted(buf, mode) ==
    [iz \in 1..GridNz |-> [ir \in 1..GridNr |->
        <<Real(Transpose(buf))[ir][iz] + Real(Transpose(mode))[ir][iz],
          buf[iz][ir][2]>>]]

\* view += 2 * mode.T.real, written through the view into the viewed buffer
AddThroughView(buf, mode) ==
    [iz \in 1..GridNz |-> [ir \in 1..GridNr |->
        <<Real(Transpose(buf))[ir][iz] + 2 * Real(Transpose(mode))[ir][iz],
          buf[iz][ir][2]>>]]

(***************************************************************************)
(* The scripts                                                             *)
(***************************************************************************)
Call(c) == calls' = Append(calls, c)

\* sim = Simulation(...): calder passes p_zmin .. n_e and dens_func, which loads
\* the electrons; lwfa passes n_e=None, which loads nothing
CreateSimulation ==
    /\ pc = "start"
    /\ Call("Simulation")
    /\ iteration' = 0
    /\ loads' = IF script = "calder" THEN loads + 1 ELSE loads
    /\ pc' = "laser"
    /\ UNCHANGED <<paramVars, N_step, startIter, stepsDone, window, diags,
                   checkpoints, fieldFired, particleFired, ckptWritten,
                   restartRaised, fieldVars, densVars>>

\* add_laser_pulse(sim, laser_profile, ...) / add_laser(sim, a0, w0, ctau, z0)
AddLaser ==
    /\ pc = "laser"
    /\ Call(IF script = "lwfa" THEN "add_laser_pulse" ELSE "add_laser")
    /\ pc' = IF script = "lwfa" THEN "species" ELSE "branch"
    /\ UNCHANGED <<paramVars, N_step, engineVars, fieldVars, densVars>>

\* add_new_species moved under `if use_restart is False`
AddSpeciesSkippedOnRestart ==
    /\ pc = "species"
    /\ IF use_restart
       THEN UNCHANGED <<calls, loads>>
       ELSE Call("add_new_species") /\ loads' = loads + 1
    /\ pc' = "branch"
    /\ UNCHANGED <<paramVars, N_step, iteration, startIter, stepsDone, window,
                   diags, checkpoints, fieldFired, particleFired, ckptWritten,
                   restartRaised, fieldVars, densVars>>

\* elec = sim.add_new_species(..., dens_func=dens_func, ...)   (lwfa only)
AddSpecies ==
    /\ pc = "species"
    /\ Call("add_new_species")
    /\ loads' = loads + 1
    /\ pc' = "branch"
    /\ UNCHANGED <<paramVars, N_step, iteration, startIter, stepsDone, window,
                   diags, checkpoints, fieldFired, particleFired, ckptWritten,
                   restartRaised, fieldVars, densVars>>

\* track() without the use_restart test
TrackOnRestartToo ==
    /\ pc = "branch"
    /\ track_electrons
    /\ Call("track")
    /\ pc' = "window"
    /\ UNCHANGED <<paramVars, N_step, engineVars, fieldVars, densVars>>

\* if use_restart is False: if track_electrons: elec.track( sim.comm )
\* (sim.ptcl[0].track( sim.comm ) in calder)
Track ==
    /\ pc = "branch"
    /\ use_restart = FALSE
    /\ track_electrons
    /\ Call("track")
    /\ pc' = "window"
    /\ UNCHANGED <<paramVars, N_step, engineVars, fieldVars, densVars>>

\* if use_restart is False: track_electrons false, nothing to do
NoTrack ==
    /\ pc = "branch"
    /\ use_restart = FALSE
    /\ ~track_electrons
    /\ pc' = "window"
    /\ UNCHANGED <<paramVars, N_step, calls, engineVars, fieldVars, densVars>>

\* the iteration held by the latest checkpoint: a checkpoint persists the
\* fields, the particles and the step counter, and a restart resumes from them
CheckpointIterations == 0..MaxCkptIter

\* a restart that goes on past set_moving_window
RestartSkipsWindow ==
    /\ pc = "branch"
    /\ use_restart # FALSE
    /\ Call("restart_from_checkpoint")
    /\ \E it \in CheckpointIterations : iteration' = it
    /\ pc' = "diags"
    /\ UNCHANGED <<paramVars, N_step, loads, startIter, stepsDone, window,
                   diags, checkpoints, fieldFired, particleFired, ckptWritten,
                   restartRaised, fieldVars, densVars>>

\* else: restart_from_checkpoint( sim ) returns: the simulation resumes at
\* the iteration of the latest checkpoint
RestartOK ==
    /\ pc = "branch"
    /\ use_restart # FALSE
    /\ Call("restart_from_checkpoint")
    /\ \E it \in CheckpointIterations : iteration' = it
    /\ pc' = "window"
    /\ UNCHANGED <<paramVars, N_step, loads, startIter, stepsDone, window,
                   diags, checkpoints, fieldFired, particleFired, ckptWritten,
                   restartRaised, fieldVars, densVars>>

\* a failed restart that is caught and ignored
RestartFailSwallowed ==
    /\ pc = "branch"
    /\ use_restart # FALSE
    /\ Call("restart_from_checkpoint")
    /\ restartRaised' = TRUE
    /\ pc' = "window"
    /\ UNCHANGED <<paramVars, N_step, loads, iteration, startIter, stepsDone,
                   window, diags, checkpoints, fieldFired, particleFired,
                   ckptWritten, fieldVars, densVars>>

\* else: restart_from_checkpoint( sim ) raises; nothing catches the exception,
\* the interpreter leaves the script
RestartFail ==
    /\ pc = "branch"
    /\ use_restart # FALSE
    /\ Call("restart_from_checkpoint")
    /\ restartRaised' = TRUE
    /\ pc' = "aborted"
    /\ UNCHANGED <<paramVars, N_step, loads, iteration, startIter, stepsDone,
                   window, diags, checkpoints, fieldFired, particleFired,
                   ckptWritten, fieldVars, densVars>>

\* sim.set_moving_window( v=v_window )
SetMovingWindow ==
    /\ pc = "window"
    /\ Call("set_moving_window")
    /\ window' = window + 1
    /\ pc' = "diags"
    /\ UNCHANGED <<paramVars, N_step, loads, iteration, startIter, stepsDone,
                   diags, checkpoints, fieldFired, particleFired, ckptWritten,
                   restartRaised, fieldVars, densVars>>

\* the particle diagnostic given checkpoint_period
AttachDiagnosticsParticleOnCheckpointPeriod ==
    /\ pc = "diags"
    /\ Call("diags")
    /\ diags' = << [kind |-> "field", period |-> diag_period],
                   [kind |-> "particle", period |-> checkpoint_period] >>
    /\ pc' = "ckpt"
    /\ UNCHANGED <<paramVars, N_step, loads, iteration, startIter, stepsDone,
                   window, checkpoints, fieldFired, particleFired, ckptWritten,
                   restartRaised, fieldVars, densVars>>

\* sim.diags = [ FieldDiagnostic( diag_period, ... ),
\*               ParticleDiagnostic( diag_period, ... ) ]
AttachDiagnostics ==
    /\ pc = "diags"
    /\ Call("diags")
    /\ diags' = << [kind |-> "field", period |-> diag_period],
                   [kind |-> "particle", period |-> diag_period] >>
    /\ pc' = "ckpt"
    /\ UNCHANGED <<paramVars, N_step, loads, iteration, startIter, stepsDone,
                   window, checkpoints, fieldFired, particleFired, ckptWritten,
                   restartRaised, fieldVars, densVars>>

\* the statement after the checkpoint block: N_step = ... in lwfa, sim.step in calder
AfterCheckpoint == IF script = "lwfa" THEN "nstep" ELSE "step"

\* if save_checkpoints: set_periodic_checkpoint( sim, checkpoint_period )
AttachCheckpoint ==
    /\ pc = "ckpt"
    /\ save_checkpoints
    /\ Call("set_periodic_checkpoint")
    /\ checkpoints' = Append(checkpoints, [period |-> checkpoint_period])
    /\ pc' = AfterCheckpoint
    /\ UNCHANGED <<paramVars, N_step, loads, iteration, startIter, stepsDone,
                   window, diags, fieldFired, particleFired, ckptWritten,
                   restartRaised, fieldVars, densVars>>

\* the checkpoint policy attached without the save_checkpoints test
NoCheckpointAttachesAnyway ==
    /\ pc = "ckpt"
    /\ ~save_checkpoints
    /\ Call("set_periodic_checkpoint")
    /\ checkpoints' = Append(checkpoints, [period |-> checkpoint_period])
    /\ pc' = AfterCheckpoint
    /\ UNCHANGED <<paramVars, N_step, loads, iteration, startIter, stepsDone,
                   window, diags, fieldFired, particleFired, ckptWritten,
                   restartRaised, fieldVars, densVars>>

\* if save_checkpoints: false, nothing to do
NoCheckpoint ==
    /\ pc = "ckpt"
    /\ ~save_checkpoints
    /\ pc' = AfterCheckpoint
    /\ UNCHANGED <<paramVars, N_step, calls, engineVars, fieldVars, densVars>>

\* N_step = int(T_interact/sim.dt)   (lwfa only)
ComputeNStep ==
    /\ pc = "nstep"
    /\ N_step' = StepCount(target, zmin, zmax, Nz, v_window)
    /\ pc' = "gather"
    /\ UNCHANGED <<paramVars, calls, engineVars, fieldVars, densVars>>

\* gathered_grids = [sim.comm.gather_grid(sim.fld.interp[m]) for m in range(Nm)]
\* gather_grid builds a new grid for each mode (the arrays are copies)
Gather ==
    /\ pc = "gather"
    /\ calls' = calls \o [k \in 1..Nm |-> "gather_grid"]
    /\ gathered_grids' = [k \in 0..(Nm - 1) |-> fld[k]]
    /\ pc' = "Er"
    /\ UNCHANGED <<paramVars, N_step, engineVars, fld, Er, m, densVars>>

\* Er = gathered_grids[0].Er.T.real : Er names a view of mode 0's array
BindEr ==
    /\ pc = "Er"
    /\ Er' = <<0>>
    /\ m' = 1
    /\ pc' = "loop"
    /\ UNCHANGED <<paramVars, N_step, calls, engineVars, fld, gathered_grids,
                   densVars>>

\* for m in range(1, Nm): Er += 2 * gathered_grids[m].Er.T.real
\* the in-place += writes through the view into gathered_grids[0].Er
AddMode ==
    /\ pc = "loop"
    /\ m < Nm
    /\ gathered_grids' =
         [gathered_grids EXCEPT ![Er[1]] =
             AddThroughView(gathered_grids[Er[1]], gathered_grids[m])]
    /\ m' = m + 1
    /\ UNCHANGED <<paramVars, N_step, pc, calls, engineVars, fld, Er, densVars>>

\* range(1, Nm) is exhausted; Plot2D(arr2d=Er / e0, ...) and fig.savefig read
\* Er and write nothing back
LoopExit ==
    /\ pc = "loop"
    /\ m >= Nm
    /\ pc' = "step"
    /\ UNCHANGED <<paramVars, N_step, calls, engineVars, fieldVars, densVars>>

\* sim.step( N_step ) is called
StepCall ==
    /\ pc = "step"
    /\ Call("step")
    /\ startIter' = iteration
    /\ stepsDone' = 0
    /\ pc' = "stepping"
    /\ UNCHANGED <<paramVars, N_step, loads, iteration, window, diags,
                   checkpoints, fieldFired, particleFired, ckptWritten,
                   restartRaised, fieldVars, densVars>>

\* whether a sink of `kind` with a period dividing `it` is attached
Due(sinks, kind, it) ==
    \E i \in 1..Len(sinks) : sinks[i].kind = kind /\ it % sinks[i].period = 0

\* one PIC iteration inside sim.step: every attached diagnostic and checkpoint
\* whose period divides the current iteration writes, then the iteration advances
EngineStep ==
    /\ pc = "stepping"
    /\ stepsDone < N_step
    /\ fieldFired' = IF Due(diags, "field", iteration)
                     THEN fieldFired \cup {iteration} ELSE fieldFired
    /\ particleFired' = IF Due(diags, "particle", iteration)
                        THEN particleFired \cup {iteration} ELSE particleFired
    /\ ckptWritten' =
         IF \E i \in 1..Len(checkpoints) : iteration % checkpoints[i].period = 0
         THEN ckptWritten \cup {iteration} ELSE ckptWritten
    /\ iteration' = iteration + 1
    /\ stepsDone' = stepsDone + 1
    /\ UNCHANGED <<paramVars, N_step, pc, calls, loads, startIter, window,
                   diags, checkpoints, restartRaised, fieldVars, densVars>>

\* sim.step returns after N_step iterations; print(''); the script ends
StepReturn ==
    /\ pc = "stepping"
    /\ stepsDone >= N_step
    /\ pc' = "done"
    /\ UNCHANGED <<paramVars, N_step, calls, engineVars, fieldVars, densVars>>

\* one evaluation of dens_func( z, r ) by the particle loader
EvalDensity ==
    /\ pc = "dens"
    /\ n' = dens_func(z, r)
    /\ pc' = "dens_done"
    /\ UNCHANGED <<paramVars, N_step, calls, engineVars, fieldVars, z, r>>

(***************************************************************************)
(* Initial states                                                          *)
(***************************************************************************)
\* the engine before the script has called anything
EngineInit ==
    /\ calls = <<>>
    /\ loads = 0
    /\ iteration = 0
    /\ startIter = 0
    /\ stepsDone = 0
    /\ window = 0
    /\ diags = <<>>
    /\ checkpoints = <<>>
    /\ fieldFired = {}
    /\ particleFired = {}
    /\ ckptWritten = {}
    /\ restartRaised = FALSE

\* the flags and periods of the parameter block
FlagsInit ==
    /\ use_restart \in BOOLEAN
    /\ track_electrons \in BOOLEAN
    /\ save_checkpoints \in BOOLEAN
    /\ diag_period \in 1..MaxPeriod
    /\ checkpoint_period \in 1..MaxPeriod

\* no density evaluation in progress
DensIdle == z = 0 /\ r = 0 /\ n = Rat(1, 1)

\* a whole run of either script. calder: N_step is a literal. lwfa: N_step is
\* unset (-1) until line 155; the box is 2 units long with 2 grid points and
\* the window moves at c, so that N_step = target; two modes, Er = [1,1], [2,2]
Init ==
    /\ script \in {"lwfa", "calder"}
    /\ FlagsInit
    /\ EngineInit
    /\ DensIdle
    /\ pc = "start"
    /\ zmin = -1 /\ zmax = 1 /\ Nz = 2 /\ v_window = CLight
    /\ Nm = 2
    /\ fld = [k \in 0..1 |-> MakeGrid(k + 1, k + 1, k)]
    /\ gathered_grids = <<>>
    /\ Er = <<>>
    /\ m = 0
    /\ IF script = "calder"
       THEN target = 0 /\ N_step \in 0..MaxSteps
       ELSE target \in 0..MaxSteps /\ N_step = -1

Next ==
    \/ CreateSimulation
    \/ AddLaser
    \/ AddSpecies
    \/ Track
    \/ NoTrack
    \/ RestartOK
    \/ RestartFail
    \/ SetMovingWindow
    \/ AttachDiagnostics
    \/ AttachCheckpoint
    \/ NoCheckpoint
    \/ ComputeNStep
    \/ Gather
    \/ BindEr
    \/ AddMode
    \/ LoopExit
    \/ StepCall
    \/ EngineStep
    \/ StepReturn

Spec == Init /\ [][Next]_vars

\* the step-count derivation of lwfa_script.py on a range of boxes
InitSteps ==
    /\ script = "lwfa"
    /\ use_restart = FALSE /\ track_electrons = FALSE /\ save_checkpoints = FALSE
    /\ diag_period = 1 /\ checkpoint_period = 1
    /\ EngineInit
    /\ DensIdle
    /\ pc = "nstep"
    /\ target \in 0..MaxTarget
    /\ zmin \in (-MaxZ)..0
    /\ zmax \in 1..MaxZ
    /\ Nz \in 1..MaxNz
    /\ v_window \in 1..CLight
    /\ N_step = -1
    /\ Nm = 1
    /\ fld = [k \in 0..0 |-> MakeGrid(0, 0, 0)]
    /\ gathered_grids = <<>>
    /\ Er = <<>>
    /\ m = 0

NextSteps == ComputeNStep

SpecSteps == InitSteps /\ [][NextSteps]_vars

\* the mode combination of lwfa_script.py on a range of mode arrays
InitField ==
    /\ script = "lwfa"
    /\ use_restart = FALSE /\ track_electrons = FALSE /\ save_checkpoints = FALSE
    /\ diag_period = 1 /\ checkpoint_period = 1
    /\ EngineInit
    /\ DensIdle
    /\ pc = "gather"
    /\ target = 0 /\ zmin = -1 /\ zmax = 1 /\ Nz = 2 /\ v_window = CLight
    /\ N_step = 0
    /\ Nm \in 1..MaxModes
    /\ \E im \in 0..1 :
         fld \in [0..(Nm - 1) -> {MakeGrid(a, b, im) : a, b \in 0..MaxRe}]
    /\ gathered_grids = <<>>
    /\ Er = <<>>
    /\ m = 0

NextField ==
    \/ Gather
    \/ BindEr
    \/ AddMode
    \/ LoopExit

SpecField == InitField /\ [][NextField]_vars

\* dens_func of either script on a range of positions
InitDens ==
    /\ script \in {"lwfa", "calder"}
    /\ use_restart = FALSE /\ track_electrons = FALSE /\ save_checkpoints = FALSE
    /\ diag_period = 1 /\ checkpoint_period = 1
    /\ EngineInit
    /\ pc = "dens"
    /\ target = 0 /\ zmin = -1 /\ zmax = 1 /\ Nz = 2 /\ v_window = CLight
    /\ N_step = 0
    /\ Nm = 1
    /\ fld = [k \in 0..0 |-> MakeGrid(0, 0, 0)]
    /\ gathered_grids = <<>>
    /\ Er = <<>>
    /\ m = 0
    /\ z \in (z1 - ZMargin)..(z4 + ZMargin)
    /\ r \in 0..MaxR
    /\ n = Rat(1, 1)

NextDens == EvalDensity

SpecDens == InitDens /\ [][NextDens]_vars

(***************************************************************************)
(* Properties                                                              *)
(***************************************************************************)
Has(c) == \E i \in 1..Len(calls) : calls[i] = c
Count(c) == Cardinality({i \in 1..Len(calls) : calls[i] = c})
IsPrefix(s, t) == Len(s) <= Len(t) /\ \A i \in 1..Len(s) : s[i] = t[i]
Box == zmax - zmin

\* the script is past the statement that loads the plasma species
PastLoading ==
    IF script = "calder" THEN pc # "start" ELSE pc \notin {"start", "laser", "species"}
\* the script is past the use_restart / track_electrons block
PastBranch == pc \notin {"start", "laser", "species", "branch"}
\* the script is past the save_checkpoints block
PastCheckpoint == pc \notin {"start", "laser", "species", "branch", "window", "diags", "ckpt", "aborted"}
\* sim.step has been called
InStep == pc \in {"stepping", "done"}

C2_TrackOnlyOnFreshRuns ==
    /\ Has("track") => track_electrons /\ ~use_restart /\ Count("track") = 1
    /\ PastBranch /\ track_electrons /\ ~use_restart => Has("track")
    /\ \A i, j \in 1..Len(calls) :
         calls[i] = "track" /\ calls[j] = "step" => i < j
    /\ pc \in {"start", "laser", "species", "branch"} => ~Has("track")

C2_Witness ==
    /\ track_electrons /\ use_restart /\ pc = "done" /\ stepsDone > 0
    /\ ~Has("track")

\* the phase of a call in the order the claim gives
ClaimedPhase(c) ==
    CASE c \in {"Simulation", "add_new_species", "restart_from_checkpoint"} -> 0
      [] c \in {"add_laser", "add_laser_pulse"} -> 1
      [] c = "track" -> 2
      [] c = "set_moving_window" -> 3
      [] c = "diags" -> 4
      [] c \in {"set_periodic_checkpoint", "gather_grid"} -> 5
      [] OTHER -> 6

\* C3 as stated: initialization or checkpoint restore, then laser, tracking,
\* moving window, diagnostics, checkpoint policy, stepping; no phase before
\* its predecessor (the restore before the laser attachment).
C3_ClaimedOrder ==
    \A i, j \in 1..Len(calls) :
        i < j => ClaimedPhase(calls[i]) <= ClaimedPhase(calls[j])

\* the calls of a whole run, in the order of the script
ExpectedCalls ==
    <<"Simulation">>
    \o (IF script = "lwfa" THEN <<"add_laser_pulse", "add_new_species">>
                           ELSE <<"add_laser">>)
    \o (IF use_restart THEN <<"restart_from_checkpoint">>
        ELSE IF track_electrons THEN <<"track">> ELSE <<>>)
    \o <<"set_moving_window", "diags">>
    \o (IF save_checkpoints THEN <<"set_periodic_checkpoint">> ELSE <<>>)
    \o (IF script = "lwfa" THEN [k \in 1..Nm |-> "gather_grid"] ELSE <<>>)
    \o <<"step">>

\* C3 amended: construction, laser attachment, (lwfa) species loading, then
\* tracking or checkpoint restore, moving window, diagnostics, checkpoint
\* policy if enabled, (lwfa) grid gathering, step; each once, in this order,
\* and nothing is called once sim.step has been called.
C3_ScriptOrder ==
    /\ IsPrefix(calls, ExpectedCalls)
    /\ pc = "done" => calls = ExpectedCalls
    /\ InStep => calls = ExpectedCalls /\ window = 1
    /\ pc = "aborted" => calls[Len(calls)] = "restart_from_checkpoint"

C3_Witness ==
    /\ script = "lwfa" /\ use_restart /\ save_checkpoints /\ pc = "done"
    /\ Len(calls) = 10

\* C4: when restart_from_checkpoint fails the run aborts: no moving window,
\* no diagnostics, no checkpoint policy, no step call, zero iterations.
C4_RestartFailureAborts ==
    /\ restartRaised =>
          /\ use_restart
          /\ pc = "aborted"
          /\ calls[Len(calls)] = "restart_from_checkpoint"
          /\ window = 0 /\ diags = <<>> /\ checkpoints = <<>>
          /\ ~Has("step") /\ stepsDone = 0
          /\ fieldFired = {} /\ particleFired = {} /\ ckptWritten = {}
    /\ pc = "aborted" => restartRaised

C4_Witness ==
    restartRaised /\ use_restart /\ pc = "aborted" /\ loads = 1

\* the multiples of period p among the iterations lo .. hi-1
Multiples(lo, hi, p) == {s \in lo..(hi - 1) : s % p = 0}

\* C5 as stated: N_step iterations, diagnostics exactly at the steps s of
\* 0 .. N_step-1 with s % diag_period = 0.
C5_DiagnosticsCountedFromZero ==
    pc = "done" =>
        /\ stepsDone = N_step
        /\ fieldFired = Multiples(0, N_step, diag_period)
        /\ particleFired = Multiples(0, N_step, diag_period)

\* C5 amended: N_step iterations, diagnostics exactly at the iterations s of
\* s0 .. s0+N_step-1 with s % diag_period = 0, where s0 is 0 on a fresh run
\* and the iteration of the restored checkpoint on a restart run.
C5_DiagnosticsAtMultiples ==
    /\ ~use_restart => startIter = 0
    /\ ~InStep => fieldFired = {} /\ particleFired = {} /\ stepsDone = 0
    /\ InStep =>
          /\ iteration = startIter + stepsDone
          /\ stepsDone <= N_step
          /\ fieldFired = Multiples(startIter, iteration, diag_period)
          /\ particleFired = Multiples(startIter, iteration, diag_period)
    /\ pc = "done" => stepsDone = N_step

C5_Witness ==
    /\ pc = "done" /\ use_restart /\ startIter = 1
    /\ diag_period = 2 /\ N_step = 4
    /\ fieldFired = {2, 4} /\ particleFired = {2, 4}

\* C6: set_periodic_checkpoint is called, with checkpoint_period, iff
\* save_checkpoints; without it no checkpoint is written at any iteration.
C6_CheckpointIffEnabled ==
    /\ Has("set_periodic_checkpoint") => save_checkpoints
    /\ PastCheckpoint =>
          checkpoints = IF save_checkpoints
                        THEN << [period |-> checkpoint_period] >> ELSE <<>>
    /\ ~PastCheckpoint => checkpoints = <<>>
    /\ ~save_checkpoints => ckptWritten = {}

C6_Witness ==
    /\ ~save_checkpoints /\ pc = "done" /\ use_restart
    /\ stepsDone > checkpoint_period /\ ckptWritten = {}

\* z is outside the profile of the running script
OutsideProfile ==
    IF script = "calder" THEN z < z1 \/ z > z4
    ELSE z < ramp_start \/ z > ramp_start + ramp_length

\* C7 as stated: dens_func is 0 outside [z1, z4] (calder) and outside
\* [ramp_start, ramp_start+ramp_length] (lwfa), for every r.
C7_ZeroOutsideProfile ==
    pc = "dens_done" /\ OutsideProfile => n[1] = 0

\* C7 amended: dens_func of calder is 0 for z < z1 and for z > z4; dens_func
\* of lwfa is 0 for z < ramp_start and 1 for z >= ramp_start+ramp_length.
C7_ZeroBelowAndCalderAbove ==
    pc = "dens_done" =>
        /\ script = "calder" /\ (z < z1 \/ z > z4) => n = Rat(0, 1)
        /\ script = "lwfa" /\ z < ramp_start => n = Rat(0, 1)
        /\ script = "lwfa" /\ z >= ramp_start + ramp_length => n = Rat(1, 1)

C7_Witness ==
    /\ pc = "dens_done" /\ script = "lwfa" /\ r = MaxR
    /\ z > ramp_start + ramp_length /\ n = Rat(1, 1)

\* C8 as stated: N_step is the floor of T/dt with T = (target - box)/v_window,
\* the box length not added back.
C8_BoxNotAddedBack ==
    pc = "gather" =>
        /\ N_step * (v_window * Box) <= (target - Box) * Nz * CLight
        /\ (target - Box) * Nz * CLight < (N_step + 1) * (v_window * Box)

\* C8 amended: N_step is the floor of T/dt with T = target/v_window: the box
\* length subtracted in L_interact is added back before the division.
C8_StepCountTruncates ==
    pc = "gather" =>
        /\ N_step * (v_window * Box) <= target * Nz * CLight
        /\ target * Nz * CLight < (N_step + 1) * (v_window * Box)

\* T_interact/dt = 5/3, truncated to 1 and not rounded to 2
C8_Witness ==
    /\ pc = "gather" /\ target = 5 /\ Box = 3 /\ Nz = 1 /\ v_window = CLight
    /\ N_step = 1

RECURSIVE SumRe(_, _, _, _)
\* the sum of the real parts of modes 1 .. k at (iz, ir)
SumRe(f, k, iz, ir) ==
    IF k < 1 THEN 0 ELSE f[k][iz][ir][1] + SumRe(f, k - 1, iz, ir)

\* C9: the combined slice is Re(mode 0) + 2 * sum of Re(mode m), m = 1..Nm-1,
\* element by element; Re(mode 0) alone when Nm = 1.
C9_ModeCombination ==
    /\ pc = "loop" =>
          \A ir \in 1..GridNr, iz \in 1..GridNz :
              ErValue[ir][iz] = fld[0][iz][ir][1] + 2 * SumRe(fld, m - 1, iz, ir)
    /\ pc = "step" =>
          /\ m = Nm
          /\ \A ir \in 1..GridNr, iz \in 1..GridNz :
              ErValue[ir][iz] = fld[0][iz][ir][1] + 2 * SumRe(fld, Nm - 1, iz, ir)

C9_Witness ==
    /\ pc = "step" /\ Nm = 2
    /\ Real(fld[0]) = Real(MakeGrid(1, 1, 0))
    /\ Real(fld[1]) = Real(MakeGrid(2, 2, 0))
    /\ \A ir \in 1..GridNr, iz \in 1..GridNz : ErValue[ir][iz] = 5

\* C10: the mode combination leaves every gathered grid, mode 0 included, as
\* gather_grid returned it.
C10_GatheredGridsUnchanged ==
    pc \in {"Er", "loop", "step"} =>
        gathered_grids = [k \in 0..(Nm - 1) |-> fld[k]]

====
